---- MODULE Spec2Model ----
(***************************************************************************)
(* Model of convo-reference1.1.js: the injection of the single reference   *)
(* button into the host's chat toolbar, driven by a MutationObserver, by   *)
(* navigation signals and by timers.                                       *)
(*                                                                         *)
(* Time is in milliseconds and advances in steps of `unit`.  A timer       *)
(* callback runs at the instant it is due: the clock does not advance past *)
(* a due timer, but any other event of the same instant may run before it. *)
(*                                                                         *)
(* The document is abstracted to the sequence, in document order, of the   *)
(* elements matching [data-element-id="chat-input-actions"].  Each has a   *)
(* flag telling whether its '.flex.items-center.justify-start' child is    *)
(* there and the number of elements with id                                *)
(* 'tm-reference-chat-button-container' inside that child.                 *)
(*                                                                         *)
(* The second half models one activation of the button: the list of chats  *)
(* read from the keyval store, the modal, and the insertion of the         *)
(* formatted chat into the textarea.  A text is a sequence of characters;  *)
(* the text to insert is a sequence of pieces.                             *)
(***************************************************************************)
EXTENDS Naturals, Integers, Sequences, FiniteSets, TLC

\* ---------------------------------------------------------------- bounds
MaxTime == 7        \* half seconds of running time after load
MaxToolbars == 1
MaxEntries == 2     \* entries in the keyval store
MaxMessages == 2    \* messages of a chat

\* -------------------------------------- program constants, in milliseconds
NavWindow == 500
DebounceDelay == 500
SettleDelay == 1500
InitialCheckDelay == 2000
InitialInnerDelay == 1000

\* Date.now() at load time; lastNavTime starts at 0, far in the past
StartTime == NavWindow
Horizon == StartTime + MaxTime * NavWindow

VARIABLES
  dom,               \* toolbars in document order: [left, ctl]
  buttonAdded,       \* line 29
  observerActive,    \* line 30
  observerConnected, \* window.convoRefObserver is observing
  lastNavTime,       \* line 33
  historyHooked,     \* history.pushState/replaceState are the overrides
  convoRefDebounce,  \* window.convoRefDebounce: Undefined, a pending timer,
                     \* or Expired for the id of a timer that ran or was cleared
  timers,            \* pending setTimeout callbacks: [src, kind, due]
  now,               \* Date.now()
  unit,              \* the resolution of the clock
  burst,             \* history: the last qualifying batch, while its callback is pending
  acceptedAt,        \* history: when a signal last scheduled a settle callback
  covered,           \* history: only toolbar additions/removals and signals so far
  last,              \* history: the step that led to this state
  store,             \* the entries of object store 'keyval', in store order
  pc,                \* handleButtonClick: "idle", "opening", "reading" or "modal"
  db,                \* the connection of this call: "none", "open" or "closed"
  chats,             \* what getChatsFromIndexedDB returned
  alerts,            \* alert() calls since the last user action
  requests,          \* indexedDB.open calls since the last user action
  write,             \* the last call of insertTextIntoInput: [effects, ret, threw]
  fullTextToInsert,  \* line 286
  flow               \* history: the last step of the activation

flowVars == <<store, pc, db, chats, alerts, requests, write, fullTextToInsert, flow>>

vars == <<dom, buttonAdded, observerActive, observerConnected, lastNavTime,
          historyHooked, convoRefDebounce, timers, now, unit, burst, acceptedAt,
          covered, last, flowVars>>

\* ------------------------------------------------------------- DOM queries
Toolbar(l, c) == [left |-> l, ctl |-> c]

RECURSIVE SumCtl(_)
SumCtl(d) == IF d = <<>> THEN 0 ELSE Head(d).ctl + SumCtl(Tail(d))

\* number of elements with id 'tm-reference-chat-button-container'
ControlCount(d) == SumCtl(d)

\* document.getElementById: the first match in document order, 0 for null
getElementById(d) ==
  IF \E i \in 1..Len(d) : d[i].ctl > 0
  THEN CHOOSE i \in 1..Len(d) : d[i].ctl > 0 /\ \A j \in 1..(i-1) : d[j].ctl = 0
  ELSE 0

\* element.remove() on the element found by getElementById
RemoveElement(d, i) == [d EXCEPT ![i].ctl = @ - 1]

\* document.querySelector('[data-element-id="chat-input-actions"]')
findChatActionBar(d) == IF Len(d) > 0 THEN 1 ELSE 0

\* actionBar.querySelector('.flex.items-center.justify-start')
LeftSide(d, bar) == d[bar].left

\* the anchor resolves: toolbar found and its left-aligned sub-container found
AnchorResolved(d) == findChatActionBar(d) # 0 /\ LeftSide(d, findChatActionBar(d))

\* ------------------------------------------------------ injection controller
\* the existing button is not removed first
addReferenceButton_KeepExisting(d, b) ==
  LET bar == findChatActionBar(d)
  IN  IF bar = 0 THEN [dom |-> d, buttonAdded |-> b, ret |-> FALSE]
      ELSE IF ~LeftSide(d, bar) THEN [dom |-> d, buttonAdded |-> b, ret |-> FALSE]
      ELSE [dom |-> [d EXCEPT ![bar].ctl = @ + 1], buttonAdded |-> TRUE, ret |-> TRUE]

\* the existing button is removed only once the anchor is found
addReferenceButton_RemoveLate(d, b) ==
  LET existingButton == getElementById(d)
      bar == findChatActionBar(d)
      d1  == IF existingButton # 0 THEN RemoveElement(d, existingButton) ELSE d
  IN  IF bar = 0 THEN [dom |-> d, buttonAdded |-> b, ret |-> FALSE]
      ELSE IF ~LeftSide(d, bar) THEN [dom |-> d, buttonAdded |-> b, ret |-> FALSE]
      ELSE [dom |-> [d1 EXCEPT ![bar].ctl = @ + 1], buttonAdded |-> TRUE, ret |-> TRUE]

\* an existing button is removed and the call returns
addReferenceButton_Toggle(d, b) ==
  LET existingButton == getElementById(d)
      bar == findChatActionBar(d)
  IN  IF existingButton # 0
      THEN [dom |-> RemoveElement(d, existingButton), buttonAdded |-> b, ret |-> FALSE]
      ELSE IF bar = 0 THEN [dom |-> d, buttonAdded |-> b, ret |-> FALSE]
      ELSE IF ~LeftSide(d, bar) THEN [dom |-> d, buttonAdded |-> b, ret |-> FALSE]
      ELSE [dom |-> [d EXCEPT ![bar].ctl = @ + 1], buttonAdded |-> TRUE, ret |-> TRUE]

addReferenceButton(d, b) ==
  LET existingButton == getElementById(d)
      d1  == IF existingButton # 0 THEN RemoveElement(d, existingButton) ELSE d
      bar == findChatActionBar(d1)
  IN  IF bar = 0 THEN [dom |-> d1, buttonAdded |-> b, ret |-> FALSE]
      ELSE IF ~LeftSide(d1, bar) THEN [dom |-> d1, buttonAdded |-> b, ret |-> FALSE]
      ELSE [dom |-> [d1 EXCEPT ![bar].ctl = @ + 1], buttonAdded |-> TRUE, ret |-> TRUE]

removeReferenceButton(d, b) ==
  LET existingButton == getElementById(d)
  IN  IF existingButton # 0
      THEN [dom |-> RemoveElement(d, existingButton), buttonAdded |-> FALSE]
      ELSE [dom |-> d, buttonAdded |-> b]

\* ------------------------------------------------------------------ timers
PendingOf(ts, src) == {t \in ts : t.src = src}

Timer(src, kind, delay) == [src |-> src, kind |-> kind, due |-> now + delay]

setTimeout(ts, src, kind, delay) == ts \cup {Timer(src, kind, delay)}

\* window.convoRefDebounce before the first setTimeout, and the id of a timer
\* that ran or was cleared
Undefined == [src |-> "none", kind |-> "undefined", due |-> 0]
Expired == [src |-> "none", kind |-> "expired", due |-> 0]

\* clearing undefined or an expired id does nothing
clearTimeout(ts, id) == ts \ {id}

Due(t) == t \in timers /\ t.due <= now

\* the record of a step: its name and what the properties need of it
\*   n      timers of its source pending before it; for a qualifying batch
\*          the number of qualifying batches, itself included, whose callback
\*          had not run
\*   adds   the observer saw the batch add a toolbar
\*   ret    what addReferenceButton returned
\*   had    controls in the document before the step
\*   flag   buttonAdded before the step; for the reconcile of the watcher,
\*          a batch was waiting for it
\*   nav    "accepted" or "ignored" if handleNavigation was called
\*   early  it was called less than NavWindow after the last acceptance; for
\*          the removal check, no batch was waiting for it
\*   late   how long after its due time a timer callback ran
Step(op) == [op |-> op, n |-> 0, adds |-> FALSE, ret |-> FALSE, had |-> 0,
             flag |-> FALSE, nav |-> "none", early |-> FALSE, late |-> 0]

\* the id of a timer that has run is inert
Expire(handle, t) == IF handle = t THEN Expired ELSE handle

\* no activation yet
NoWrite == [effects |-> <<>>, ret |-> FALSE, threw |-> FALSE]
NoEntry == [obj |-> FALSE, chatTitle |-> "undefined", id |-> "undefined",
            messages |-> [kind |-> "undefined", items |-> <<>>]]
FlowStep(op) == [op |-> op, failed |-> FALSE, chat |-> NoEntry]

Idle(entries) ==
  /\ store = entries
  /\ pc = "idle"
  /\ db = "none"
  /\ chats = <<>>
  /\ alerts = 0
  /\ requests = 0
  /\ write = NoWrite
  /\ fullTextToInsert = <<>>
  /\ flow = FlowStep("load")

Boot(u) ==
  /\ Idle(<<>>)
  /\ unit = u
  /\ dom = <<>>
  /\ buttonAdded = FALSE
  /\ observerActive = FALSE
  /\ observerConnected = FALSE
  /\ lastNavTime = 0
  /\ historyHooked = TRUE
  /\ convoRefDebounce = Undefined
  /\ now = StartTime
  /\ timers = {Timer("init", "outer", InitialCheckDelay)}
  /\ burst = [at |-> 0, on |-> FALSE]
  /\ acceptedAt = 0
  /\ covered = TRUE
  /\ last = Step("load")

\* time passes; no timer is overdue
Tick ==
  /\ now + unit <= Horizon
  /\ \A t \in timers : t.due > now
  /\ now' = now + unit
  /\ last' = Step("tick")
  /\ UNCHANGED <<flowVars, unit, dom, buttonAdded, observerActive, observerConnected, lastNavTime,
                 historyHooked, convoRefDebounce, timers, burst, acceptedAt, covered>>

\* ------------------------------------------------------- host DOM changes
\* One host operation is one childList MutationRecord: a view holding the
\* toolbar is mounted or unmounted, the toolbar element is replaced by a new
\* one, or a re-render drops the button container.
HostOps(d) ==
  {[type |-> "add", i |-> i, node |-> "ancestor"] :
      i \in {j \in 1..(Len(d)+1) : Len(d) < MaxToolbars}}
  \cup {[type |-> "remove", i |-> i, node |-> "ancestor"] : i \in 1..Len(d)}
  \cup {[type |-> "replace", i |-> i, node |-> "toolbar"] : i \in 1..Len(d)}
  \cup {[type |-> "removeControl", i |-> i, node |-> "control"] :
      i \in {j \in 1..Len(d) : j = getElementById(d)}}

Apply(d, op) ==
  CASE op.type = "add" ->
         SubSeq(d, 1, op.i - 1) \o <<Toolbar(TRUE, 0)>> \o SubSeq(d, op.i, Len(d))
    [] op.type = "remove" ->
         SubSeq(d, 1, op.i - 1) \o SubSeq(d, op.i + 1, Len(d))
    [] op.type = "replace" -> [d EXCEPT ![op.i] = Toolbar(TRUE, 0)]
    [] op.type = "removeControl" -> RemoveElement(d, op.i)

\* the MutationRecord the observer receives for an operation
Record(op) ==
  [addedNodes   |-> IF op.type \in {"add", "replace", "insertControl"}
                    THEN {op.node} ELSE {},
   removedNodes |-> IF op.type \in {"remove", "replace", "removeControl"}
                    THEN {op.node} ELSE {}]

\* A class change on the toolbar's child makes it match, or stop matching,
\* '.flex.items-center.justify-start'.  The observer watches childList only
\* and gets no record of it.
HostRestyle ==
  /\ \E i \in 1..Len(dom) : dom' = [dom EXCEPT ![i].left = ~@]
  /\ covered' = FALSE
  /\ last' = Step("restyle")
  /\ UNCHANGED <<flowVars, unit, buttonAdded, observerActive, observerConnected, lastNavTime,
                 historyHooked, convoRefDebounce, timers, now, burst, acceptedAt>>

\* the host's own events cover only toolbar additions and removals
ToolbarOp(op) == op.type \in {"add", "remove", "replace"}

RECURSIVE ApplyAll(_, _)
ApplyAll(d, ops) == IF ops = <<>> THEN d ELSE ApplyAll(Apply(d, Head(ops)), Tail(ops))

\* ------------------------------------------------------- mutation watcher
\* node is the toolbar, or contains it
\* every element node qualifies
Matches_AnyElement(node) == node \in {"toolbar", "ancestor", "control"}

Matches(node) == node = "toolbar" \/ node = "ancestor"

\* the loop over the batch: flags of the first record that sets one
RECURSIVE Scan(_)
Scan(ops) ==
  IF ops = <<>> THEN [shouldCheck |-> FALSE, shouldRemove |-> FALSE]
  ELSE LET m == Record(Head(ops))
           c == \E n \in m.addedNodes : Matches(n)
           r == \E n \in m.removedNodes : Matches(n)
       IN  IF c \/ r THEN [shouldCheck |-> c, shouldRemove |-> r]
           ELSE Scan(Tail(ops))

\* clearTimeout(window.convoRefDebounce); window.convoRefDebounce = setTimeout(.., 500)
\* the pending timer is not cleared
ScheduleDebounce_NoClear(s, kind) ==
  [timers |-> setTimeout(s.timers, "observer", kind, DebounceDelay),
   handle |-> Timer("observer", kind, DebounceDelay)]

ScheduleDebounce(s, kind) ==
  [timers |-> setTimeout(clearTimeout(s.timers, s.handle), "observer", kind, DebounceDelay),
   handle |-> Timer("observer", kind, DebounceDelay)]

\* lines 422-437, with the flags f of the scan
Schedule(s, f) ==
  LET s1 == IF f.shouldCheck THEN ScheduleDebounce(s, "check") ELSE s
      s2 == IF f.shouldRemove THEN ScheduleDebounce(s1, "remove") ELSE s1
  IN  s2

ObserverCallback(s, ops) == Schedule(s, Scan(ops))

AddsToolbar(ops) == \E k \in 1..Len(ops) : \E n \in Record(ops[k]).addedNodes : Matches(n)
Qualifies(ops) == Scan(ops).shouldCheck \/ Scan(ops).shouldRemove

\* what a batch does: the document after it, what the observer's callback
\* does with it, and what the properties need of it
Batch(ops) ==
  [dom        |-> ApplyAll(dom, ops),
   flags      |-> Scan(ops),
   adds       |-> AddsToolbar(ops),
   toolbarOps |-> \A k \in 1..Len(ops) : ToolbarOp(ops[k])]

\* the host changes the document and the observer, if connected, gets the batch
Deliver(b) ==
  LET s == Schedule([timers |-> timers, handle |-> convoRefDebounce], b.flags)
      qualifies == b.flags.shouldCheck \/ b.flags.shouldRemove
  IN
  /\ dom' = b.dom
  /\ IF observerConnected
     THEN /\ timers' = s.timers
          /\ convoRefDebounce' = s.handle
          /\ burst' = IF qualifies THEN [at |-> now, on |-> TRUE] ELSE burst
     ELSE UNCHANGED <<timers, convoRefDebounce, burst>>
  /\ covered' = (covered /\ b.toolbarOps)
  /\ last' = [Step("batch") EXCEPT
                !.adds = observerConnected /\ b.adds,
                !.n = IF observerConnected /\ qualifies
                      THEN Cardinality(PendingOf(timers, "observer")) + 1 ELSE 0]
  /\ UNCHANGED <<flowVars, unit, buttonAdded, observerActive, observerConnected, lastNavTime,
                 historyHooked, now, acceptedAt>>

\* a batch of one record
HostBatch1 == \E b \in {Batch(<<op>>) : op \in HostOps(dom)} : Deliver(b)

\* the operations on toolbars
ToolbarOps(d) == {op \in HostOps(d) : ToolbarOp(op)}

\* A batch of two records, for the connected observer.  Both records are
\* toolbar operations: a record that sets no flag neither stops nor changes
\* the scan, so a batch holding one acts as the other record alone.
HostBatch2 ==
  /\ observerConnected
  /\ \E op1 \in ToolbarOps(dom) : \E op2 \in ToolbarOps(Apply(dom, op1)) :
       Deliver(Batch(<<op1, op2>>))

\* The script's own childList changes, one record each: existingButton.remove()
\* (lines 109, 159) and leftSide.prepend(refButtonContainer) (line 134).  The
\* node of both records is the button container.
RemovedControl == [type |-> "removeControl", i |-> 0, node |-> "control"]
InsertedControl == [type |-> "insertControl", i |-> 0, node |-> "control"]

\* the records of one run of addReferenceButton on d that returned ret
ReconcileRecords(d, ret) ==
  (IF getElementById(d) # 0 THEN <<RemovedControl>> ELSE <<>>)
  \o (IF ret THEN <<InsertedControl>> ELSE <<>>)

\* the records of one run of removeReferenceButton on d
TeardownRecords(d) == IF getElementById(d) # 0 THEN <<RemovedControl>> ELSE <<>>

\* The connected observer gets the records of a callback in one batch, right
\* after the callback.  ts and handle are the timers and
\* window.convoRefDebounce the callback left.
Observe(ts, handle, records) ==
  IF observerConnected /\ records # <<>>
  THEN Schedule([timers |-> ts, handle |-> handle], Scan(records))
  ELSE [timers |-> ts, handle |-> handle]

\* the debounced callback of the shouldCheck branch
DebounceCheck ==
  \E t \in timers :
    /\ Due(t) /\ t.src = "observer" /\ t.kind = "check"
    /\ LET r == addReferenceButton(dom, buttonAdded)
           o == Observe(timers \ {t}, Expire(convoRefDebounce, t),
                        ReconcileRecords(dom, r.ret))
       IN  /\ dom' = r.dom
           /\ buttonAdded' = r.buttonAdded
           /\ timers' = o.timers
           /\ convoRefDebounce' = o.handle
           /\ last' = [Step("check") EXCEPT !.n = Cardinality(PendingOf(timers, "observer")),
                         !.flag = burst.on, !.ret = r.ret,
                         !.late = now - (burst.at + DebounceDelay)]
    /\ burst' = [at |-> 0, on |-> FALSE]
    /\ UNCHANGED <<flowVars, unit, observerActive, observerConnected, lastNavTime, historyHooked,
                   now, acceptedAt, covered>>

\* if (!findChatActionBar()) removeReferenceButton();
\* the anchor is not looked up again
removalCheck_Always(d, b) == removeReferenceButton(d, b)

removalCheck(d, b) ==
  IF findChatActionBar(d) = 0 THEN removeReferenceButton(d, b)
  ELSE [dom |-> d, buttonAdded |-> b]

\* the debounced callback of the shouldRemove branch
DebounceRemove ==
  \E t \in timers :
    /\ Due(t) /\ t.src = "observer" /\ t.kind = "remove"
    /\ LET r == removalCheck(dom, buttonAdded)
           o == Observe(timers \ {t}, Expire(convoRefDebounce, t),
                        IF r.dom # dom THEN TeardownRecords(dom) ELSE <<>>)
       IN  /\ dom' = r.dom
           /\ buttonAdded' = r.buttonAdded
           /\ timers' = o.timers
           /\ convoRefDebounce' = o.handle
           /\ last' = [Step("removal") EXCEPT !.n = Cardinality(PendingOf(timers, "observer")),
                         !.had = ControlCount(dom), !.flag = buttonAdded,
                         !.early = ~burst.on,
                         !.late = now - (burst.at + DebounceDelay)]
    /\ burst' = [at |-> 0, on |-> FALSE]
    /\ UNCHANGED <<flowVars, unit, observerActive, observerConnected, lastNavTime, historyHooked,
                   now, acceptedAt, covered>>

\* ------------------------------------------------------ navigation monitor
\* an ignored signal moves the reference time too
handleNavigation_MoveOnIgnore(s) ==
  IF now - s.lastNavTime < NavWindow
  THEN [s EXCEPT !.lastNavTime = now, !.accepted = FALSE]
  ELSE [s EXCEPT !.lastNavTime = now,
                 !.buttonAdded = FALSE,
                 !.timers = setTimeout(s.timers, "nav", "settle", SettleDelay),
                 !.accepted = TRUE]

\* s: [buttonAdded, lastNavTime, timers, accepted]
handleNavigation(s) ==
  IF now - s.lastNavTime < NavWindow
  THEN [s EXCEPT !.accepted = FALSE]
  ELSE [s EXCEPT !.lastNavTime = now,
                 !.buttonAdded = FALSE,
                 !.timers = setTimeout(s.timers, "nav", "settle", SettleDelay),
                 !.accepted = TRUE]

NavState(b, ts) == [buttonAdded |-> b, lastNavTime |-> lastNavTime, timers |-> ts,
                    accepted |-> FALSE]

\* history.pushState / history.replaceState (while overridden), popstate,
\* visibilitychange with the tab visible
NavSignal ==
  /\ \E label \in {"pushState", "replaceState", "popstate", "visibilityChange"} :
       label \in {"pushState", "replaceState"} => historyHooked
  /\ LET r == handleNavigation(NavState(buttonAdded, timers))
     IN  /\ buttonAdded' = r.buttonAdded
         /\ lastNavTime' = r.lastNavTime
         /\ timers' = r.timers
         /\ acceptedAt' = IF r.timers # timers THEN now ELSE acceptedAt
         /\ last' = [Step("signal") EXCEPT
                       !.nav = IF r.timers # timers THEN "accepted" ELSE "ignored",
                       !.early = now - acceptedAt < NavWindow,
                       !.had = ControlCount(dom),
                       !.n = Cardinality(PendingOf(timers, "nav"))]
  /\ UNCHANGED <<flowVars, unit, dom, observerActive, observerConnected, historyHooked,
                 convoRefDebounce, now, burst, covered>>

\* the callback handleNavigation schedules
\* the two branches are swapped
settleCallback_Inverted(d, b) ==
  IF findChatActionBar(d) = 0
  THEN addReferenceButton(d, b)
  ELSE removeReferenceButton(d, b) @@ [ret |-> FALSE]

settleCallback(d, b) ==
  IF findChatActionBar(d) # 0
  THEN addReferenceButton(d, b)
  ELSE removeReferenceButton(d, b) @@ [ret |-> FALSE]

NavSettle ==
  \E t \in timers :
    /\ Due(t) /\ t.src = "nav"
    /\ LET r == settleCallback(dom, buttonAdded)
           o == Observe(timers \ {t}, convoRefDebounce,
                        IF findChatActionBar(dom) # 0
                        THEN ReconcileRecords(dom, r.ret) ELSE TeardownRecords(dom))
       IN  /\ dom' = r.dom
           /\ buttonAdded' = r.buttonAdded
           /\ timers' = o.timers
           /\ convoRefDebounce' = o.handle
           /\ last' = [Step(IF findChatActionBar(dom) # 0 THEN "settle" ELSE "teardown")
                         EXCEPT !.ret = r.ret, !.late = now - t.due,
                                !.n = Cardinality(PendingOf(timers, "nav"))]
    /\ UNCHANGED <<flowVars, unit, observerActive, observerConnected, lastNavTime, historyHooked,
                   now, burst, acceptedAt, covered>>

\* ---------------------------------------------------------- initialization
\* the outer startup timer: setupObserver(), then the inner timer
InitOuter ==
  \E t \in timers :
    /\ Due(t) /\ t.src = "init" /\ t.kind = "outer"
    /\ observerActive' = TRUE
    /\ observerConnected' = (IF observerActive THEN observerConnected ELSE TRUE)
    /\ timers' = setTimeout(timers \ {t}, "init", "inner", InitialInnerDelay)
    /\ last' = Step("setup")
    /\ UNCHANGED <<flowVars, unit, dom, buttonAdded, lastNavTime, historyHooked, convoRefDebounce,
                   now, burst, acceptedAt, covered>>

\* the inner startup timer: first reconcile, else handleNavigation('initial')
InitInner ==
  \E t \in timers :
    /\ Due(t) /\ t.src = "init" /\ t.kind = "inner"
    /\ LET r == addReferenceButton(dom, buttonAdded)
           s == NavState(r.buttonAdded, timers \ {t})
           h == IF r.ret THEN s ELSE handleNavigation(s)
           o == Observe(h.timers, convoRefDebounce, ReconcileRecords(dom, r.ret))
       IN  /\ dom' = r.dom
           /\ buttonAdded' = h.buttonAdded
           /\ lastNavTime' = h.lastNavTime
           /\ timers' = o.timers
           /\ convoRefDebounce' = o.handle
           /\ acceptedAt' = IF h.timers # timers \ {t} THEN now ELSE acceptedAt
           /\ last' = [Step("first") EXCEPT
                         !.ret = r.ret,
                         !.nav = IF r.ret THEN "none"
                                 ELSE IF h.timers # timers \ {t} THEN "accepted"
                                 ELSE "ignored",
                         !.early = ~r.ret /\ now - acceptedAt < NavWindow]
    /\ UNCHANGED <<flowVars, unit, observerActive, observerConnected, historyHooked,
                   now, burst, covered>>

\* ------------------------------------------------------- exposed controls
\* window.convoRef.addButton()
CallAddButton ==
  /\ LET r == addReferenceButton(dom, buttonAdded)
         o == Observe(timers, convoRefDebounce, ReconcileRecords(dom, r.ret))
     IN  /\ dom' = r.dom
         /\ buttonAdded' = r.buttonAdded
         /\ timers' = o.timers
         /\ convoRefDebounce' = o.handle
         /\ last' = [Step("call") EXCEPT !.ret = r.ret]
  /\ UNCHANGED <<flowVars, unit, observerActive, observerConnected, lastNavTime, historyHooked,
                 now, burst, acceptedAt, covered>>

\* the steps of addReferenceButton that call into the DOM
Faults == {"remove", "lookup", "create", "insert", "attach"}

\* addReferenceButton when the DOM call of step f raises: the catch block
\* returns false and leaves what the steps before f did
addReferenceButtonFailing(d, b, f) ==
  LET existingButton == getElementById(d)
      d1  == IF existingButton # 0 THEN RemoveElement(d, existingButton) ELSE d
      bar == findChatActionBar(d1)
  IN  IF existingButton # 0 /\ f = "remove"
      THEN [dom |-> d, buttonAdded |-> b, ret |-> FALSE]
      ELSE IF f = "lookup" THEN [dom |-> d1, buttonAdded |-> b, ret |-> FALSE]
      ELSE IF bar = 0 THEN [dom |-> d1, buttonAdded |-> b, ret |-> FALSE]
      ELSE IF ~LeftSide(d1, bar) THEN [dom |-> d1, buttonAdded |-> b, ret |-> FALSE]
      ELSE IF f \in {"create", "insert"} THEN [dom |-> d1, buttonAdded |-> b, ret |-> FALSE]
      ELSE IF f = "attach"
      THEN [dom |-> [d1 EXCEPT ![bar].ctl = @ + 1], buttonAdded |-> b, ret |-> FALSE]
      ELSE [dom |-> [d1 EXCEPT ![bar].ctl = @ + 1], buttonAdded |-> TRUE, ret |-> TRUE]

\* window.convoRef.addButton() while one DOM call raises
CallAddButtonFailing ==
  /\ \E f \in Faults :
       LET r == addReferenceButtonFailing(dom, buttonAdded, f)
           removed == getElementById(dom) # 0 /\ f # "remove"
           inserted == ControlCount(r.dom) + (IF removed THEN 1 ELSE 0) > ControlCount(dom)
           o == Observe(timers, convoRefDebounce,
                        (IF removed THEN <<RemovedControl>> ELSE <<>>)
                        \o (IF inserted THEN <<InsertedControl>> ELSE <<>>))
       IN  /\ dom' = r.dom
           /\ buttonAdded' = r.buttonAdded
           /\ timers' = o.timers
           /\ convoRefDebounce' = o.handle
           /\ last' = [Step("failing") EXCEPT !.ret = r.ret, !.had = ControlCount(dom)]
  /\ covered' = FALSE
  /\ UNCHANGED <<flowVars, unit, observerActive, observerConnected, lastNavTime, historyHooked,
                 now, burst, acceptedAt>>

\* window.convoRef.cleanup()
cleanup ==
  /\ observerActive' = (IF observerActive THEN FALSE ELSE observerActive)
  /\ observerConnected' = FALSE
  /\ timers' = IF convoRefDebounce # Undefined
               THEN clearTimeout(timers, convoRefDebounce) ELSE timers
  /\ convoRefDebounce' = IF convoRefDebounce = Undefined THEN Undefined ELSE Expired
  /\ historyHooked' = FALSE
  /\ burst' = IF PendingOf(timers', "observer") = {} THEN [at |-> 0, on |-> FALSE] ELSE burst
  /\ covered' = FALSE
  /\ last' = Step("cleanup")
  /\ UNCHANGED <<flowVars, unit, dom, buttonAdded, lastNavTime, now, acceptedAt>>

\* ------------------------------------------------------------ storage reader
\* A value of the store: obj tells whether typeof entry === 'object' and
\* entry is not null; a missing field reads "undefined".  messages is
\* undefined, null, a string or an array.
Entry(title, id, msgs) == [obj |-> TRUE, chatTitle |-> title, id |-> id, messages |-> msgs]

Messages(kind, items) == [kind |-> kind, items |-> items]

\* JavaScript truthiness of a field
Truthy(v) == v \notin {"undefined", ""}
TruthyMessages(msgs) == msgs.kind \in {"string", "array"}
IsArray(msgs) == msgs.kind = "array"

\* the predicate of allEntries.filter, lines 365-370
IsChat(entry) ==
  /\ entry.obj
  /\ \/ entry.chatTitle # "undefined" /\ entry.messages.kind # "undefined"
     \/ Truthy(entry.id) /\ TruthyMessages(entry.messages) /\ IsArray(entry.messages)

\* allEntries.filter(...)
filter(entries) == SelectSeq(entries, IsChat)

\* the user clicks the button: handleButtonClick calls getChatsFromIndexedDB,
\* which calls indexedDB.open
Click ==
  /\ pc = "idle"
  /\ ControlCount(dom) >= 1
  /\ pc' = "opening"
  /\ db' = "none"
  /\ chats' = <<>>
  /\ alerts' = 0
  /\ requests' = 1
  /\ write' = NoWrite
  /\ fullTextToInsert' = <<>>
  /\ flow' = FlowStep("click")
  /\ UNCHANGED <<store, dom, buttonAdded, observerActive, observerConnected, lastNavTime,
                 historyHooked, convoRefDebounce, timers, now, unit, burst, acceptedAt,
                 covered, last>>

\* request.onerror of the open request: getChatsFromIndexedDB rejects and
\* handleButtonClick alerts
OpenError ==
  /\ pc = "opening"
  /\ pc' = "idle"
  /\ alerts' = alerts + 1
  /\ flow' = [FlowStep("openError") EXCEPT !.failed = TRUE]
  /\ UNCHANGED <<store, db, chats, requests, write, fullTextToInsert,
                 dom, buttonAdded, observerActive, observerConnected, lastNavTime,
                 historyHooked, convoRefDebounce, timers, now, unit, burst, acceptedAt,
                 covered, last>>

\* request.onsuccess of the open request: db.transaction, which raises when
\* the object store is missing, then store.getAll()
OpenSuccess ==
  /\ pc = "opening"
  /\ db' = "open"
  /\ \E raises \in BOOLEAN :
       IF raises
       THEN /\ pc' = "idle"
            /\ alerts' = alerts + 1
            /\ flow' = [FlowStep("transactionError") EXCEPT !.failed = TRUE]
       ELSE /\ pc' = "reading"
            /\ alerts' = alerts
            /\ flow' = FlowStep("open")
  /\ UNCHANGED <<store, chats, requests, write, fullTextToInsert,
                 dom, buttonAdded, observerActive, observerConnected, lastNavTime,
                 historyHooked, convoRefDebounce, timers, now, unit, burst, acceptedAt,
                 covered, last>>

\* request.onerror of getAll: getChatsFromIndexedDB rejects and
\* handleButtonClick alerts
ReadError ==
  /\ pc = "reading"
  /\ pc' = "idle"
  /\ alerts' = alerts + 1
  /\ flow' = [FlowStep("readError") EXCEPT !.failed = TRUE]
  /\ UNCHANGED <<store, db, chats, requests, write, fullTextToInsert,
                 dom, buttonAdded, observerActive, observerConnected, lastNavTime,
                 historyHooked, convoRefDebounce, timers, now, unit, burst, acceptedAt,
                 covered, last>>

\* request.onsuccess of getAll: filter, db.close(), return; handleButtonClick
\* alerts when there is no chat and shows the modal otherwise.  The entries
\* carry no updatedAt/createdAt, so the sort at line 177 keeps their order.
ReadSuccess ==
  /\ pc = "reading"
  /\ chats' = filter(store)
  /\ db' = "closed"
  /\ IF chats' = <<>>
     THEN pc' = "idle" /\ alerts' = alerts + 1
     ELSE pc' = "modal" /\ alerts' = alerts
  /\ flow' = FlowStep("read")
  /\ UNCHANGED <<store, requests, write, fullTextToInsert,
                 dom, buttonAdded, observerActive, observerConnected, lastNavTime,
                 historyHooked, convoRefDebounce, timers, now, unit, burst, acceptedAt,
                 covered, last>>

\* -------------------------------------------------------------- input writer
\* the dispatches, the assignment of the value and the restoring of the
\* cursor, lines 58-76
Protocol_InputBeforeSet ==
  <<"compositionstart", "input", "set", "keydown", "keypress", "keyup",
    "compositionend", "change", "cursor">>

Protocol ==
  <<"compositionstart", "set", "keydown", "keypress", "keyup", "input",
    "compositionend", "change", "cursor">>

\* the steps that may raise: reading selection and value, focus(), the native
\* setter, the direct assignment, and each step of the protocol but "set"
WriteSteps ==
  {"read", "focus", "nativeSet", "directSet"}
    \cup ({Protocol[k] : k \in 1..Len(Protocol)} \ {"set"})

\* lines 57-83 with the steps of F raising: the steps done so far, the value
\* returned
RECURSIVE tryBlock(_, _, _)
tryBlock(steps, F, done) ==
  IF steps = <<>> THEN [effects |-> done, ret |-> TRUE, threw |-> FALSE]
  ELSE IF Head(steps) = "set"
  THEN IF "nativeSet" \notin F THEN tryBlock(Tail(steps), F, Append(done, "nativeSet"))
       ELSE IF "directSet" \notin F THEN tryBlock(Tail(steps), F, Append(done, "directSet"))
       ELSE [effects |-> done, ret |-> FALSE, threw |-> FALSE]
  ELSE IF Head(steps) \in F THEN [effects |-> done, ret |-> FALSE, threw |-> FALSE]
  ELSE tryBlock(Tail(steps), F, Append(done, Head(steps)))

\* lines 50-55 are outside the try block
insertTextIntoInput(F) ==
  IF "read" \in F THEN [effects |-> <<>>, ret |-> FALSE, threw |-> TRUE]
  ELSE IF "focus" \in F THEN [effects |-> <<>>, ret |-> FALSE, threw |-> TRUE]
  ELSE tryBlock(Protocol, F, <<"focus">>)

\* ------------------------------------------------- formatting of a chat
Whitespace == {" ", "\n"}

RECURSIVE trimStart(_)
trimStart(t) == IF t # <<>> /\ Head(t) \in Whitespace THEN trimStart(Tail(t)) ELSE t

RECURSIVE trimEnd(_)
trimEnd(t) ==
  IF t # <<>> /\ t[Len(t)] \in Whitespace THEN trimEnd(SubSeq(t, 1, Len(t) - 1)) ELSE t

\* String.prototype.trim
trim(t) == trimEnd(trimStart(t))

\* Array.prototype.join('\n')
RECURSIVE join(_)
join(texts) ==
  IF texts = <<>> THEN <<>>
  ELSE IF Len(texts) = 1 THEN Head(texts)
  ELSE Head(texts) \o <<"\n">> \o join(Tail(texts))

\* msg.content: a string, an array of parts, or an object with a text field;
\* a missing or empty text is <<>>
String(t) == [kind |-> "string", text |-> t, parts |-> <<>>]
Parts(ps) == [kind |-> "parts", text |-> <<>>, parts |-> ps]
Object(t) == [kind |-> "object", text |-> t, parts |-> <<>>]
Part(type, t) == [type |-> type, text |-> t]
Message(role, content) == [role |-> role, content |-> content]

TextPart(part) == part.type = "text" /\ part.text # <<>>

RECURSIVE texts(_)
texts(ps) == IF ps = <<>> THEN <<>> ELSE <<Head(ps).text>> \o texts(Tail(ps))

\* lines 267-276
contentText(content) ==
  IF content.kind = "string" THEN content.text
  ELSE IF content.kind = "parts" THEN join(texts(SelectSeq(content.parts, TextPart)))
  ELSE content.text

\* lines 266-279: what one message adds to formattedText
\* the role label is written whatever the content
formatMessage_LabelAlways(msg) ==
  LET role == IF msg.role = "user" THEN "User"
              ELSE IF msg.role = "assistant" THEN "Assistant" ELSE "null"
      ct   == contentText(msg.content)
  IN  IF role # "null"
      THEN <<role, ": ">> \o trim(ct) \o <<"\n\n">>
      ELSE <<>>

formatMessage(msg) ==
  LET role == IF msg.role = "user" THEN "User"
              ELSE IF msg.role = "assistant" THEN "Assistant" ELSE "null"
      ct   == contentText(msg.content)
  IN  IF role # "null" /\ ct # <<>> /\ trim(ct) # <<>>
      THEN <<role, ": ">> \o trim(ct) \o <<"\n\n">>
      ELSE <<>>

RECURSIVE forEach(_)
forEach(msgs) == IF msgs = <<>> THEN <<>> ELSE formatMessage(Head(msgs)) \o forEach(Tail(msgs))

\* lines 263-281
formattedText(chatData) ==
  IF TruthyMessages(chatData.messages) /\ IsArray(chatData.messages)
  THEN forEach(chatData.messages.items)
  ELSE <<>>

\* the entries carry no updatedAt
referenceHeader(chatData) ==
  <<"\n\n--- Start Reference ---\nConversation: \"",
    IF Truthy(chatData.chatTitle) THEN chatData.chatTitle ELSE "Untitled",
    "\"\nLast Updated: ", "N/A", "\n\n">>

referenceFooter == <<"--- End Reference ---\n">>

\* --------------------------------------------------------- selection modal
FaultSets == {{}} \cup {{f} : f \in WriteSteps} \cup {{"nativeSet", "directSet"}}

\* the user clicks a chat of the list: format, find the textarea, insert,
\* close the modal
Select ==
  /\ pc = "modal"
  /\ \E i \in 1..Len(chats) : \E found \in BOOLEAN : \E F \in FaultSets :
       LET chatData == chats[i]
           r == insertTextIntoInput(F)
       IN  /\ fullTextToInsert' =
                referenceHeader(chatData) \o formattedText(chatData) \o referenceFooter
           /\ IF ~found
              THEN /\ F = {}
                   /\ alerts' = 1
                   /\ pc' = "modal"
                   /\ write' = NoWrite
                   /\ flow' = [FlowStep("noTextarea") EXCEPT !.failed = TRUE, !.chat = chatData]
              ELSE /\ write' = r
                   /\ alerts' = IF ~r.threw /\ ~r.ret THEN 1 ELSE 0
                   /\ pc' = IF r.threw THEN "modal" ELSE "idle"
                   /\ flow' = [FlowStep("select") EXCEPT !.failed = r.threw \/ ~r.ret,
                                                          !.chat = chatData]
  /\ requests' = 0
  /\ UNCHANGED <<store, db, chats,
                 dom, buttonAdded, observerActive, observerConnected, lastNavTime,
                 historyHooked, convoRefDebounce, timers, now, unit, burst, acceptedAt,
                 covered, last>>

\* the Cancel button or the Escape key
Cancel ==
  /\ pc = "modal"
  /\ pc' = "idle"
  /\ alerts' = 0
  /\ requests' = 0
  /\ flow' = FlowStep("cancel")
  /\ UNCHANGED <<store, db, chats, write, fullTextToInsert,
                 dom, buttonAdded, observerActive, observerConnected, lastNavTime,
                 historyHooked, convoRefDebounce, timers, now, unit, burst, acceptedAt,
                 covered, last>>

Next ==
  \/ Tick
  \/ HostBatch1
  \/ HostBatch2
  \/ HostRestyle
  \/ DebounceCheck
  \/ DebounceRemove
  \/ NavSignal
  \/ NavSettle
  \/ InitOuter
  \/ InitInner
  \/ CallAddButton
  \/ cleanup

\* the whole program at the resolution of the rate limit window
Init == Boot(NavWindow)

Spec == Init /\ [][Next]_vars

\* the watcher, the navigation monitor and the startup at half that
\* resolution, without the exposed controls and two-record batches
InitFine == Boot(NavWindow \div 2)

NextFine ==
  \/ Tick
  \/ HostBatch1
  \/ HostRestyle
  \/ DebounceCheck
  \/ DebounceRemove
  \/ NavSignal
  \/ NavSettle
  \/ InitOuter
  \/ InitInner

SpecFine == InitFine /\ [][NextFine]_vars

\* window.convoRef.addButton() called by hand, with and without a DOM call
\* that raises, on the host's document before the startup timer is due
NextCalls ==
  \/ Tick
  \/ HostBatch1
  \/ HostRestyle
  \/ CallAddButton
  \/ CallAddButtonFailing

SpecCalls == Init /\ [][NextCalls]_vars

\* one activation after another, once the startup has put the button in place
Ready ==
  /\ unit = NavWindow
  /\ dom = <<Toolbar(TRUE, 1)>>
  /\ buttonAdded = TRUE
  /\ observerActive = TRUE
  /\ observerConnected = TRUE
  /\ lastNavTime = 0
  /\ historyHooked = TRUE
  /\ convoRefDebounce = Undefined
  /\ now = StartTime + InitialCheckDelay + InitialInnerDelay
  /\ timers = {}
  /\ burst = [at |-> 0, on |-> FALSE]
  /\ acceptedAt = 0
  /\ covered = TRUE
  /\ last = [Step("first") EXCEPT !.ret = TRUE]

\* sequences of at most n elements of S
UpTo(S, n) == UNION {[1..k -> S] : k \in 0..n}

\* the chat of the store: two messages with string contents
Hi == <<Message("user", String(<<"H", "i">>)),
        Message("assistant", String(<<"H", "e", "l", "l", "o">>))>>

\* the values the host keeps in the store: settings and the like, and
\* objects with or without chatTitle, id and messages
Entries ==
  {NoEntry} \cup
  {Entry(title, id, msgs) :
     title \in {"undefined", "Plan"}, id \in {"undefined", "c1"},
     msgs \in {Messages("undefined", <<>>), Messages("string", <<>>), Messages("array", Hi)}}

InitFlow == Ready /\ \E entries \in UpTo(Entries, MaxEntries) : Idle(entries)

NextFlow ==
  \/ Click
  \/ OpenError
  \/ OpenSuccess
  \/ ReadError
  \/ ReadSuccess
  \/ Select
  \/ Cancel

SpecFlow == InitFlow /\ [][NextFlow]_vars

\* the same with a store of one chat, over the shapes of messages
Contents ==
  {String(<<>>), String(<<" ">>), String(<<"a">>), String(<<" ", "a", " ">>),
   Parts(<<Part("text", <<>>), Part("image", <<>>)>>),
   Parts(<<Part("text", <<"a">>), Part("image", <<>>), Part("text", <<"b">>)>>),
   Object(<<"a">>)}

Roles == {"user", "assistant", "system"}

Conversations ==
  UpTo({Message(role, content) : role \in Roles, content \in Contents}, MaxMessages)

InitFormat ==
  Ready /\ \E msgs \in Conversations : Idle(<<Entry("Plan", "c1", Messages("array", msgs))>>)

SpecFormat == InitFormat /\ [][NextFlow]_vars

\* ------------------------------------------------------------- properties
ControlPresent == ControlCount(dom) >= 1

\* addReferenceButton has just run
Reconciled == last.op \in {"check", "call", "first", "settle"}

\* C1: in every reachable state the document holds at most one element with
\* id 'tm-reference-chat-button-container'.
SingleControl == ControlCount(dom) <= 1

\* a settle callback reconciled while a debounced callback was pending
SingleControlWitness ==
  last.op = "settle" /\ ControlCount(dom) = 1 /\ PendingOf(timers, "observer") # {}

\* C2: right after addReferenceButton, an unresolved anchor (no toolbar, or a
\* toolbar without its left-aligned child) means no control in the document,
\* and a resolved anchor means exactly one control, inside that child.
ReconcilePostcondition ==
  Reconciled =>
    IF AnchorResolved(dom)
    THEN ControlCount(dom) = 1 /\ dom[findChatActionBar(dom)].ctl = 1
    ELSE ControlCount(dom) = 0

\* the toolbar lost its left-aligned child while holding the control, and
\* the reconcile took the control away
ReconcilePostconditionWitness ==
  /\ last.op = "call"
  /\ findChatActionBar(dom) # 0 /\ ~AnchorResolved(dom)
  /\ buttonAdded /\ ControlCount(dom) = 0

\* C3: a second addReferenceButton right after a first one changes nothing and
\* returns what the first returned.
ReconcileIdempotent ==
  Reconciled =>
    addReferenceButton(dom, buttonAdded) =
      [dom |-> dom, buttonAdded |-> buttonAdded, ret |-> last.ret]

\* an explicit call has put the control in place
ReconcileIdempotentWitness ==
  last.op = "call" /\ last.ret /\ ControlCount(dom) = 1 /\ buttonAdded

\* C4: with only toolbar additions/removals and navigation signals as host
\* events, once no timer is pending the control is there iff the anchor is.
Convergence ==
  (covered /\ timers = {}) => (ControlPresent <=> AnchorResolved(dom))

\* C5: an observed batch in which an added node is or holds the toolbar leaves
\* a reconcile scheduled.
AddSchedulesReconcile ==
  (last.op = "batch" /\ last.adds) =>
    \E t \in PendingOf(timers, "observer") : t.kind = "check"

\* C6: a signal is ignored iff it comes less than 500ms after the last
\* accepted one, and an ignored signal leaves the reference time alone: the
\* reference time is always the time of the last accepted signal.
RateLimit ==
  /\ lastNavTime = acceptedAt
  /\ last.nav = "ignored" => last.early
  /\ last.nav = "accepted" => ~last.early

\* a signal was ignored 250ms after the accepted one, which is still the
\* reference
RateLimitWitness ==
  /\ last.op = "signal" /\ last.nav = "ignored"
  /\ now - acceptedAt > 0 /\ lastNavTime = acceptedAt

\* C7: an accepted signal leaves the control where it is, resets the flag and
\* adds one settle callback 1500ms ahead; the callback runs when due and
\* reconciles if the toolbar is there, else leaves no control.
SettleAfterNavigation ==
  /\ (last.op = "signal" /\ last.nav = "accepted") =>
       /\ ControlCount(dom) = last.had
       /\ ~buttonAdded
       /\ [src |-> "nav", kind |-> "settle", due |-> acceptedAt + SettleDelay] \in timers
       /\ Cardinality(PendingOf(timers, "nav")) = last.n + 1
  /\ last.op \in {"settle", "teardown"} =>
       /\ last.late = 0
       /\ Cardinality(PendingOf(timers, "nav")) = last.n - 1
       /\ IF last.op = "settle" /\ AnchorResolved(dom)
          THEN ControlCount(dom) = 1 /\ buttonAdded
          ELSE ControlCount(dom) = 0

\* the settle callback of the last accepted signal ran 1500ms after it and
\* put the control in place
SettleAfterNavigationWitness ==
  /\ last.op = "settle" /\ now = acceptedAt + SettleDelay
  /\ ControlCount(dom) = 1 /\ buttonAdded

\* C8: the removal check leaves control and flag alone when the toolbar is
\* there at the time it runs.
RemovalCheckGuarded ==
  (last.op = "removal" /\ findChatActionBar(dom) # 0) =>
    ControlCount(dom) = last.had /\ buttonAdded = last.flag

\* the removal check ran and the control is still in place
RemovalCheckGuardedWitness ==
  last.op = "removal" /\ last.had = 1 /\ ControlCount(dom) = 1 /\ buttonAdded

\* C9: qualifying batches that each come while the callback of the previous
\* one is pending leave one debounced callback pending, due 500ms after the
\* last of them, and that is when it runs, once.
TrailingDebounce ==
  /\ burst.on =>
       PendingOf(timers, "observer") =
         {t \in timers : t.src = "observer" /\ t.due = burst.at + DebounceDelay}
       /\ Cardinality(PendingOf(timers, "observer")) = 1
  /\ last.op = "check" =>
       last.flag /\ last.n = 1 /\ last.late = 0 /\ PendingOf(timers, "observer") = {}
  /\ last.op = "removal" =>
       ~last.early /\ last.n = 1 /\ last.late = 0 /\ PendingOf(timers, "observer") = {}

\* a qualifying batch came 250ms after the previous one, whose callback had
\* not run, and one callback is pending
TrailingDebounceWitness ==
  /\ last.op = "batch" /\ last.n = 2
  /\ Cardinality(PendingOf(timers, "observer")) = 1
  /\ \E t \in timers : t.src = "observer" /\ t.due = now + DebounceDelay

\* C10: at most one debounce timer and at most one settle timer are pending.
OneTimerPerSource ==
  /\ Cardinality(PendingOf(timers, "observer")) <= 1
  /\ Cardinality(PendingOf(timers, "nav")) <= 1

\* C11: when cleanup returns no timer of the program is pending.
CleanupClearsTimers == last.op = "cleanup" => timers = {}

\* C12: once cleanup has restored the history functions, no navigation signal
\* schedules a settle callback and the observer stays disconnected.
CleanupReleasesHooks ==
  ~historyHooked =>
    /\ ~observerConnected
    /\ last.op = "signal" => last.nav # "accepted"

\* C13: addReferenceButton returns true iff a control is in the document when
\* it returns, whichever of its DOM calls raises.
ResultIsPresence ==
  last.op \in {"call", "failing"} => (last.ret <=> ControlPresent)

\* C14: once getChatsFromIndexedDB has returned or rejected, the connection it
\* opened is closed.
ConnectionClosed == pc \in {"idle", "modal"} => db # "open"

\* an array of messages, and a title or an identifier
WellFormed(entry) ==
  /\ entry.obj
  /\ entry.messages.kind = "array"
  /\ entry.chatTitle # "undefined" \/ entry.id # "undefined"

\* C15: getChatsFromIndexedDB returns exactly the entries with an array of
\* messages and a title or an identifier, in store order.
FilterExact == flow.op = "read" => chats = SelectSeq(store, WellFormed)

\* C16: a failure of the storage or of the write has shown one alert, and no
\* storage request is pending or was repeated.
NoticeOnFailure ==
  flow.failed => alerts = 1 /\ pc \notin {"opening", "reading"} /\ requests <= 1

\* C17: a successful insertTextIntoInput has, after focus(), dispatched
\* compositionstart, set the value once (native setter or direct
\* assignment), dispatched keydown, keypress, keyup, input, compositionend
\* and change, and restored the cursor, in this order and each once.
WriteOrder ==
  (flow.op = "select" /\ write.ret) =>
    /\ Len(write.effects) = 10
    /\ write.effects[1] = "focus"
    /\ write.effects[2] = "compositionstart"
    /\ write.effects[3] \in {"nativeSet", "directSet"}
    /\ SubSeq(write.effects, 4, 10) =
         <<"keydown", "keypress", "keyup", "input", "compositionend", "change", "cursor">>

\* the native setter raised and the insertion succeeded by direct assignment
WriteOrderWitness ==
  flow.op = "select" /\ write.ret /\ write.effects[3] = "directSet"

\* C18: insertTextIntoInput does not throw, and returns true only when every
\* step was done.
WriterNeverThrows ==
  /\ ~write.threw
  /\ write.ret => Len(write.effects) = Len(Protocol) + 1

\* the text of a content as the formatting rule reads it: a string as it is,
\* the parts tagged "text" of a sequence, the text field of an object
Tagged(part) == part.type = "text"

Normalize(content) ==
  CASE content.kind = "string" -> content.text
    [] content.kind = "parts"  -> join(texts(SelectSeq(content.parts, Tagged)))
    [] content.kind = "object" -> content.text

Label(role) == IF role = "user" THEN "User" ELSE "Assistant"

LineTrimmed(msg) ==
  IF msg.role \in {"user", "assistant"} /\ trim(Normalize(msg.content)) # <<>>
  THEN <<Label(msg.role), ": ">> \o trim(Normalize(msg.content)) \o <<"\n\n">>
  ELSE <<>>

LineAsIs(msg) ==
  IF msg.role \in {"user", "assistant"} /\ Normalize(msg.content) # <<>>
  THEN <<Label(msg.role), ": ">> \o Normalize(msg.content) \o <<"\n\n">>
  ELSE <<>>

RECURSIVE Flatten(_)
Flatten(ss) == IF ss = <<>> THEN <<>> ELSE Head(ss) \o Flatten(Tail(ss))

Inserted == flow.op = "select" /\ write.ret

Selected == flow.chat.messages.items

FlagImpliesControl == buttonAdded => ControlPresent

\* where a pending timer comes from: a qualifying batch of the host that is
\* still waiting for its callback, a navigation signal (or the startup call
\* of handleNavigation) at most SettleDelay before its due time, or startup
FromHostOrStartup(t) ==
  CASE t.src = "observer" -> burst.on /\ t.due = burst.at + DebounceDelay
    [] t.src = "nav"      -> t.due <= acceptedAt + SettleDelay
    [] t.src = "init"     -> t.due <= StartTime + InitialCheckDelay + InitialInnerDelay

\* C21: the records of the script's own removal and insertion of the button
\* container reach the observer and schedule nothing: every pending timer was
\* set by a host batch, by a navigation signal or by startup, and is due
\* not later than SettleDelay after it and not before now.  So once
\* SettleDelay has passed since the last host event and since the first
\* reconcile, no timer is pending.
NoSelfTrigger == \A t \in timers : t.due >= now /\ FromHostOrStartup(t)

\* the debounced reconcile inserted the container under the connected
\* observer and nothing is pending after it
NoSelfTriggerWitness ==
  /\ last.op = "check"
  /\ last.ret
  /\ observerConnected
  /\ timers = {}

\* C22: when the first reconcile of startup does not add the control, the
\* call handleNavigation('initial') schedules an anchor check SettleDelay
\* later, whatever signals were accepted before.
SecondChance ==
  (last.op = "first" /\ ~last.ret) =>
    \E t \in timers : t.src = "nav" /\ t.due = now + SettleDelay
====
